---- MODULE Spec2Model ----
(***************************************************************************)
(* Model of the fluent-results pipeline (src/src/Result.ts): the Result    *)
(* object with its reasons, its single-slot state cache, its parent/child  *)
(* links, the entry points try/tryAsync and the chaining operations bind,  *)
(* bindAsync, okIf, okIfAsync, failIf, failIfAsync.                        *)
(*                                                                         *)
(* JavaScript values are modelled as follows.  Pipeline state values are   *)
(* the integers 0..NumVals-1.  Values a delegate throws or rejects with    *)
(* are strings: "x" (an ordinary value) and "circular" (a value that       *)
(* JSON.stringify cannot serialise, e.g. an object that references itself  *)
(* or a BigInt).  "NoState" is the Error thrown by currentState and        *)
(* "TypeError" the one thrown by JSON.stringify.  Predicate results are    *)
(* the strings "true", "false" and "1" (truthy, but not true).             *)
(***************************************************************************)
EXTENDS Integers, Sequences, FiniteSets, TLC

VARIABLES reasons, stateCache, routineName, parent, child, count, pending, last,
          held

vars == <<reasons, stateCache, routineName, parent, child, count, pending, last,
          held>>

\* ------------------------------------------------------------------ bounds
MaxPipes == 3
NumVals == 2

Pipes == 1..MaxPipes
Vals == 0..(NumVals - 1)
Thrown == {"x", "circular"}
PredVals == {"true", "false", "1"}
Undefined == 0

\* ------------------------------------------------------------------ reasons
\* JSON.stringify(value): throws a TypeError on a value it cannot serialise.
JSONstringify(v) ==
    IF v = "circular" THEN [threw |-> TRUE, exc |-> "TypeError", val |-> ""]
    ELSE IF v = "x" THEN [threw |-> FALSE, exc |-> "none", val |-> "\"x\""]
    ELSE [threw |-> FALSE, exc |-> "none", val |-> "{}"]

NoReason == [kind |-> "none", message |-> "", payload |-> "none"]

\* new ExceptionalError(exception): super(JSON.stringify(exception)), then
\* the exception is kept.  The constructor throws when stringify throws.
ExceptionalError(exception) ==
    LET s == JSONstringify(exception)
    IN  IF s.threw
        THEN [threw |-> TRUE, exc |-> s.exc, val |-> NoReason]
        ELSE [threw |-> FALSE, exc |-> "none",
              val |-> [kind |-> "ExceptionalError", message |-> s.val,
                       payload |-> exception]]

\* new PromiseRejection(reason)
PromiseRejection(reason) ==
    LET s == JSONstringify(reason)
    IN  IF s.threw
        THEN [threw |-> TRUE, exc |-> s.exc, val |-> NoReason]
        ELSE [threw |-> FALSE, exc |-> "none",
              val |-> [kind |-> "PromiseRejection", message |-> s.val,
                       payload |-> reason]]

\* The error a caller hands to okIf/failIf (an AError subclass of the caller).
TestError == [kind |-> "TestError", message |-> "This is a test error", payload |-> "none"]

IsAError_OnlyDomain(r) == r.kind = "TestError"

\* r instanceof AError
IsAError(r) == r.kind \in {"TestError", "ExceptionalError", "PromiseRejection"}

\* ------------------------------------------------------------------ getters
isFailed_Every(rs) == \A i \in 1..Len(rs) : IsAError(rs[i])

\* AResult.isFailed: this._reasons.some(r => r instanceof AError)
isFailed(rs) == \E i \in 1..Len(rs) : IsAError(rs[i])

\* AResult.isSuccess: !this.isFailed
isSuccess(rs) == ~isFailed(rs)

currentState_Default(cache) ==
    IF Len(cache) >= 1
    THEN [threw |-> FALSE, val |-> <<cache[1]>>]
    ELSE [threw |-> FALSE, val |-> <<0>>]

\* Result.currentState: the cached value, or throws 'No state present'.
currentState(cache) ==
    IF Len(cache) = 1
    THEN [threw |-> FALSE, val |-> <<cache[1]>>]
    ELSE [threw |-> TRUE, val |-> <<>>]

\* An array the caller holds: alias tells whether it is the very array the
\* pipeline keeps in _reasons, pipe which pipeline it was read from.
NoArray == [pipe |-> 0, alias |-> FALSE, list |-> <<>>]

\* A getter that hands out the array of the pipeline itself.
reasonsGetter_NoCopy(rs, p) == [pipe |-> p, alias |-> TRUE, list |-> rs]

\* Result.reasons: this._reasons.slice(), a new array with the same elements.
reasonsGetter(rs, p) == [pipe |-> p, alias |-> FALSE, list |-> rs]

\* An errors getter that returns every reason.
errors_All(rs) == rs

\* Result.errors: this._reasons.filter(r => r instanceof AError)
errors(rs) == SelectSeq(rs, IsAError)

\* A cache that keeps the first value it was given.
cacheState_KeepFirst(cache, value) == IF cache = <<>> THEN <<value>> ELSE cache

\* Result.cacheState: stateCache.length = 0; stateCache.push(value)
cacheState(cache, value) == Append(SubSeq(cache, 1, 0), value)

\* ------------------------------------------------------------------ delegates
\* A delegate is [arity, kind, val, pval, exc]: it returns (kind "ret"), throws
\* exc when invoked (kind "throw") or, for an asynchronous delegate, returns a
\* promise that resolves (kind "ret") or rejects with exc (kind "reject").
\* A step returns val, a one-argument step its input plus val; a predicate
\* returns pval.
StepFuncs ==
    [arity : {0, 1}, kind : {"ret"}, val : Vals, pval : {"none"}, exc : {"none"}]
    \cup [arity : {0, 1}, kind : {"throw"}, val : {0}, pval : {"none"}, exc : Thrown]

AsyncStepFuncs ==
    StepFuncs
    \cup [arity : {0, 1}, kind : {"reject"}, val : {0}, pval : {"none"}, exc : Thrown]

\* The action of try/tryAsync is called with no argument.
Actions == {f \in StepFuncs : f.arity = 0}

AsyncActions == {f \in AsyncStepFuncs : f.arity = 0}

Predicates ==
    [arity : {0, 1}, kind : {"ret"}, val : {0}, pval : PredVals, exc : {"none"}]
    \cup [arity : {0, 1}, kind : {"throw"}, val : {0}, pval : {"false"}, exc : Thrown]

AsyncPredicates ==
    Predicates
    \cup [arity : {0, 1}, kind : {"reject"}, val : {0}, pval : {"false"}, exc : Thrown]

\* The value a step function produces from its argument list.
StepOut(func, arg) ==
    IF func.arity = 0 \/ arg = <<>> THEN func.val ELSE (arg[1] + func.val) % NumVals

\* JavaScript truthiness of a predicate result.
Truthy(v) == v \in {"true", "1"}

\* func(...arg): a delegate that throws does so when it is invoked.
Invoke(func, arg) ==
    IF func.kind = "throw"
    THEN [threw |-> TRUE, exc |-> func.exc, ninv |-> 1, arg |-> arg]
    ELSE [threw |-> FALSE, exc |-> "none", ninv |-> 1, arg |-> arg]

Call_NoInput(func, cache) == Invoke(func, <<>>)

\* A call that hands undefined to a one-argument delegate when no state is
\* cached, instead of failing on the read of currentState.
Call_UndefinedInput(func, cache) ==
    IF func.arity = 0
    THEN Invoke(func, <<>>)
    ELSE IF currentState(cache).threw
         THEN Invoke(func, <<Undefined>>)
         ELSE Invoke(func, currentState(cache).val)

\* func.length === 0 ? func() : func(this.currentState)
\* Reading currentState on an empty cache throws before func is invoked.
Call(func, cache) ==
    IF func.arity = 0
    THEN Invoke(func, <<>>)
    ELSE IF currentState(cache).threw
         THEN [threw |-> TRUE, exc |-> "NoState", ninv |-> 0, arg |-> <<>>]
         ELSE Invoke(func, currentState(cache).val)

\* ------------------------------------------------------------------ the heap
\* All Result objects: pipelines 1..count are allocated.
World ==
    [reasons |-> reasons, stateCache |-> stateCache, routineName |-> routineName,
     parent |-> parent, child |-> child, count |-> count]

\* A constructor that does not keep the parent it is given.
NewResult_NoParent(w, name, par) ==
    [w EXCEPT !.count = w.count + 1,
              !.routineName[w.count + 1] = name]

\* A constructor that hands the cached state of the parent down to the child.
NewResult_InheritState(w, name, par) ==
    [w EXCEPT !.count = w.count + 1,
              !.routineName[w.count + 1] = name,
              !.parent[w.count + 1] = par,
              !.stateCache[w.count + 1] =
                  IF par = Undefined THEN <<>> ELSE w.stateCache[par]]

\* A constructor that does not keep the name it is given.
NewResult_NoName(w, name, par) ==
    [w EXCEPT !.count = w.count + 1,
              !.parent[w.count + 1] = par]

\* A constructor that starts the pipeline with a cached value (undefined).
NewResult_SeededState(w, name, par) ==
    [w EXCEPT !.count = w.count + 1,
              !.routineName[w.count + 1] = name,
              !.parent[w.count + 1] = par,
              !.stateCache[w.count + 1] = <<Undefined>>]

\* A constructor that makes the parent the child of the new pipeline.
NewResult_BackLink(w, name, par) ==
    [w EXCEPT !.count = w.count + 1,
              !.routineName[w.count + 1] = name,
              !.parent[w.count + 1] = par,
              !.child[w.count + 1] = par]

\* new Result(routineName, parent): no reasons, empty cache, no child.
NewResult(w, name, par) ==
    [w EXCEPT !.count = w.count + 1,
              !.routineName[w.count + 1] = name,
              !.parent[w.count + 1] = par]

\* A push that also records the reason on the parent of the pipeline.
Push_Bubble(w, p, reason) ==
    IF w.parent[p] = Undefined
    THEN [w EXCEPT !.reasons[p] = Append(@, reason)]
    ELSE [w EXCEPT !.reasons[p] = Append(@, reason),
                   !.reasons[w.parent[p]] = Append(@, reason)]

\* this._reasons.unshift(reason): the reason is put in front.
Push_Unshift(w, p, reason) == [w EXCEPT !.reasons[p] = <<reason>> \o @]

\* this._reasons.push(reason)
Push(w, p, reason) == [w EXCEPT !.reasons[p] = Append(@, reason)]

\* (this).cacheState(value)
Cache(w, p, value) == [w EXCEPT !.stateCache[p] = cacheState(@, value)]

\* What a call hands back: the heap after it, how often the delegate and the
\* contingency routine were invoked, the argument list the delegate got, and
\* the exception the call threw to its caller (<<>> when it returned).
Outcome(w, ninv, arg, threw, cinv) ==
    [w |-> w, ninv |-> ninv, arg |-> arg, threw |-> threw, cinv |-> cinv]

\* catch (e) { this._reasons.push(new ExceptionalError(e)); }
\* with no finally: an exception of the constructor leaves the method.
CatchPush(w, p, e) ==
    LET err == ExceptionalError(e)
    IN  IF err.threw THEN [w |-> w, threw |-> <<err.exc>>]
        ELSE [w |-> Push(w, p, err.val), threw |-> <<>>]

\* catch (e) { result._reasons.push(new ExceptionalError(e)); }
\* finally { return result; }: the return discards a pending exception.
CatchPushFinallyReturn(w, p, e) ==
    LET err == ExceptionalError(e)
    IN  IF err.threw THEN [w |-> w, threw |-> <<>>]
        ELSE [w |-> Push(w, p, err.val), threw |-> <<>>]

\* ------------------------------------------------------------------ sync operations
\* Result.try(action, routineName)
try(w, action, name) ==
    LET w1 == NewResult(w, name, Undefined)
        id == w1.count
        c == Invoke(action, <<>>)
    IN  IF ~c.threw
        THEN Outcome(Cache(w1, id, StepOut(action, <<>>)), c.ninv, c.arg, <<>>, 0)
        ELSE Outcome(CatchPushFinallyReturn(w1, id, c.exc).w, c.ninv, c.arg, <<>>, 0)

bind_NoShortCircuit(w, p, func) ==
    LET c == Call(func, w.stateCache[p])
    IN  IF ~c.threw
        THEN Outcome(Cache(w, p, StepOut(func, c.arg)), c.ninv, c.arg, <<>>, 0)
        ELSE LET h == CatchPush(w, p, c.exc)
             IN  Outcome(h.w, c.ninv, c.arg, h.threw, 0)

\* Result.bind(func)
bind(w, p, func) ==
    IF isSuccess(w.reasons[p])
    THEN LET c == Call(func, w.stateCache[p])
         IN  IF ~c.threw
             THEN Outcome(Cache(w, p, StepOut(func, c.arg)), c.ninv, c.arg, <<>>, 0)
             ELSE LET h == CatchPush(w, p, c.exc)
                  IN  Outcome(h.w, c.ninv, c.arg, h.threw, 0)
    ELSE Outcome(w, 0, <<>>, <<>>, 0)

\* okIf without the isSuccess test: the predicate is evaluated on a failed
\* pipeline too.
okIf_NoGuard(w, p, predicate, error) ==
    LET c == Call(predicate, w.stateCache[p])
    IN  IF ~c.threw
        THEN IF Truthy(predicate.pval)
             THEN Outcome(w, c.ninv, c.arg, <<>>, 0)
             ELSE Outcome(Push(w, p, error), c.ninv, c.arg, <<>>, 0)
        ELSE LET h == CatchPush(w, p, c.exc)
             IN  Outcome(h.w, c.ninv, c.arg, h.threw, 0)

\* Result.okIf(predicate, error)
okIf(w, p, predicate, error) ==
    IF isSuccess(w.reasons[p])
    THEN LET c == Call(predicate, w.stateCache[p])
         IN  IF ~c.threw
             THEN IF ~Truthy(predicate.pval)
                  THEN Outcome(Push(w, p, error), c.ninv, c.arg, <<>>, 0)
                  ELSE Outcome(w, c.ninv, c.arg, <<>>, 0)
             ELSE LET h == CatchPush(w, p, c.exc)
                  IN  Outcome(h.w, c.ninv, c.arg, h.threw, 0)
    ELSE Outcome(w, 0, <<>>, <<>>, 0)

\* ------------------------------------------------------------------ async operations
\* An async method runs synchronously up to its first await on a pending
\* promise: Start is that part, Settle the continuation once the promise the
\* delegate returned has settled.  susp tells whether the call is suspended.
Started(o, susp) == [o |-> o, susp |-> susp]

\* Result.tryAsync(action, routineName), up to the await
tryAsyncStart(w, action, name) ==
    LET w1 == NewResult(w, name, Undefined)
        id == w1.count
        c == Invoke(action, <<>>)
    IN  IF ~c.threw
        THEN Started(Outcome(w1, c.ninv, c.arg, <<>>, 0), TRUE)
        ELSE Started(Outcome(CatchPushFinallyReturn(w1, id, c.exc).w,
                             c.ninv, c.arg, <<>>, 0), FALSE)

\* .then(value => result.cacheState(value))
\* .catch(reason => result._reasons.push(new PromiseRejection(reason)))
\* An exception of the PromiseRejection constructor rejects the awaited
\* promise, and the await throws it into the catch clause.
tryAsyncSettle(w, p, action, arg, ninv) ==
    IF action.kind = "ret"
    THEN Outcome(Cache(w, p, StepOut(action, arg)), ninv, arg, <<>>, 0)
    ELSE LET r == PromiseRejection(action.exc)
         IN  IF ~r.threw
             THEN Outcome(Push(w, p, r.val), ninv, arg, <<>>, 0)
             ELSE Outcome(CatchPushFinallyReturn(w, p, r.exc).w, ninv, arg, <<>>, 0)

\* bindAsync that does not await the promise of its step: the call completes
\* while the operation is still running.
bindAsyncStart_NoAwait(w, p, func) ==
    IF isSuccess(w.reasons[p])
    THEN LET c == Call(func, w.stateCache[p])
         IN  IF ~c.threw
             THEN Started(Outcome(w, c.ninv, c.arg, <<>>, 0), FALSE)
             ELSE LET h == CatchPush(w, p, c.exc)
                  IN  Started(Outcome(h.w, c.ninv, c.arg, h.threw, 0), FALSE)
    ELSE Started(Outcome(w, 0, <<>>, <<>>, 0), FALSE)

\* bindAsync without the isSuccess test: the step is invoked, and its promise
\* awaited, on a failed pipeline too.
bindAsyncStart_NoShortCircuit(w, p, func) ==
    LET c == Call(func, w.stateCache[p])
    IN  IF ~c.threw
        THEN Started(Outcome(w, c.ninv, c.arg, <<>>, 0), TRUE)
        ELSE LET h == CatchPush(w, p, c.exc)
             IN  Started(Outcome(h.w, c.ninv, c.arg, h.threw, 0), FALSE)

\* Result.bindAsync(func), up to the await
bindAsyncStart(w, p, func) ==
    IF isSuccess(w.reasons[p])
    THEN LET c == Call(func, w.stateCache[p])
         IN  IF ~c.threw
             THEN Started(Outcome(w, c.ninv, c.arg, <<>>, 0), TRUE)
             ELSE LET h == CatchPush(w, p, c.exc)
                  IN  Started(Outcome(h.w, c.ninv, c.arg, h.threw, 0), FALSE)
    ELSE Started(Outcome(w, 0, <<>>, <<>>, 0), FALSE)

\* bindAsync whose rejection handler records the rejection and lets it go on
\* to the catch clause, which records it again.
bindAsyncSettle_RecordTwice(w, p, func, arg, ninv) ==
    IF func.kind = "ret"
    THEN Outcome(Cache(w, p, StepOut(func, arg)), ninv, arg, <<>>, 0)
    ELSE LET r == PromiseRejection(func.exc)
         IN  IF ~r.threw
             THEN LET h == CatchPush(Push(w, p, r.val), p, func.exc)
                  IN  Outcome(h.w, ninv, arg, h.threw, 0)
             ELSE LET h == CatchPush(w, p, r.exc)
                  IN  Outcome(h.w, ninv, arg, h.threw, 0)

\* bindAsync that tests isSuccess again when the promise has settled and
\* drops the outcome when the pipeline has failed in the meantime.
bindAsyncSettle_Recheck(w, p, func, arg, ninv) ==
    IF isFailed(w.reasons[p])
    THEN Outcome(w, ninv, arg, <<>>, 0)
    ELSE IF func.kind = "ret"
         THEN Outcome(Cache(w, p, StepOut(func, arg)), ninv, arg, <<>>, 0)
         ELSE LET r == PromiseRejection(func.exc)
              IN  IF ~r.threw
                  THEN Outcome(Push(w, p, r.val), ninv, arg, <<>>, 0)
                  ELSE LET h == CatchPush(w, p, r.exc)
                       IN  Outcome(h.w, ninv, arg, h.threw, 0)

\* Result.bindAsync(func), from the settlement of the promise on
bindAsyncSettle(w, p, func, arg, ninv) ==
    IF func.kind = "ret"
    THEN Outcome(Cache(w, p, StepOut(func, arg)), ninv, arg, <<>>, 0)
    ELSE LET r == PromiseRejection(func.exc)
         IN  IF ~r.threw
             THEN Outcome(Push(w, p, r.val), ninv, arg, <<>>, 0)
             ELSE LET h == CatchPush(w, p, r.exc)
                  IN  Outcome(h.w, ninv, arg, h.threw, 0)

\* ------------------------------------------------------------------ contingencies
\* A contingency routine is caller code that receives the child pipeline: it
\* throws exc ("throw"), chains child.bind(step) and returns ("bind"), or
\* looks at the pipeline it detours from and returns ("probe"):
\*   if (!(child.parent.isFailed && child.parent.child === child)) throw "x"
\* A routine that just returns is a probe whose condition holds.
NoStep == [arity |-> 0, kind |-> "ret", val |-> 0, pval |-> "none", exc |-> "none"]

Routines ==
    [kind : {"probe"}, exc : {"none"}, step : {NoStep}]
    \cup [kind : {"throw"}, exc : Thrown, step : {NoStep}]
    \cup [kind : {"bind"}, exc : {"none"}, step : {NoStep}]

NoContingency ==
    [present |-> FALSE, routineName |-> "",
     func |-> [kind |-> "none", exc |-> "none", step |-> NoStep]]

Contingencies ==
    {NoContingency}
    \cup [present : {TRUE}, routineName : {"Contingent route"}, func : Routines]

\* A routine may also be asynchronous: it returns the promise of
\* child.bindAsync(step) ("bindAsync"), or is an async function whose promise
\* rejects with exc ("reject").
DetachedSteps ==
    {[arity |-> 0, kind |-> "ret", val |-> 1, pval |-> "none", exc |-> "none"],
     [arity |-> 0, kind |-> "reject", val |-> 0, pval |-> "none", exc |-> "x"]}

AsyncRoutines ==
    [kind : {"bindAsync"}, exc : {"none"}, step : DetachedSteps]
    \cup [kind : {"reject"}, exc : {"x"}, step : {NoStep}]

AsyncContingencies ==
    [present : {TRUE}, routineName : {"Contingent route"}, func : AsyncRoutines]

\* A call of the routine that waits for the promise the routine returns: a
\* rejection is thrown where the routine was called.
RunRoutine_Awaited(w, c, routine) ==
    IF routine.kind \in {"throw", "reject"} THEN [w |-> w, threw |-> <<routine.exc>>]
    ELSE IF routine.kind = "bindAsync"
         THEN [w |-> bindAsyncStart(w, c, routine.step).o.w, threw |-> <<>>]
    ELSE IF routine.kind = "bind"
         THEN LET b == bind(w, c, routine.step) IN [w |-> b.w, threw |-> b.threw]
    ELSE LET par == w.parent[c]
         IN  IF par # Undefined /\ isFailed(w.reasons[par]) /\ w.child[par] = c
             THEN [w |-> w, threw |-> <<>>]
             ELSE [w |-> w, threw |-> <<"x">>]

\* contingency.func(child): a plain call; what the routine returns is dropped.
\* An async function never throws to its caller, it returns a promise.
RunRoutine(w, c, routine) ==
    IF routine.kind = "throw" THEN [w |-> w, threw |-> <<routine.exc>>]
    ELSE IF routine.kind = "probe"
         THEN LET par == w.parent[c]
              IN  IF par # Undefined /\ isFailed(w.reasons[par]) /\ w.child[par] = c
                  THEN [w |-> w, threw |-> <<>>]
                  ELSE [w |-> w, threw |-> <<"x">>]
    ELSE IF routine.kind = "bindAsync"
         THEN [w |-> bindAsyncStart(w, c, routine.step).o.w, threw |-> <<>>]
    ELSE IF routine.kind = "reject" THEN [w |-> w, threw |-> <<>>]
    ELSE LET b == bind(w, c, routine.step) IN [w |-> b.w, threw |-> b.threw]

\* The calls a routine that has run on child c left suspended: the
\* child.bindAsync(step) whose promise nobody awaits.
Detached(w, c, routine) ==
    IF routine.kind = "bindAsync" /\ bindAsyncStart(w, c, routine.step).susp
    THEN LET o == bindAsyncStart(w, c, routine.step).o
         IN  {[op |-> "bindAsync", pipe |-> c, func |-> routine.step,
               ctg |-> NoContingency, arg |-> o.arg, ninv |-> o.ninv,
               pre |-> [reasons |-> w.reasons[c], stateCache |-> w.stateCache[c],
                        child |-> w.child[c]]]}
    ELSE {}

\* The fail branch without `this.child = child`: the routine runs on a child
\* the pipeline does not keep.
FailBranch_NoAttach(w, p, error, contingency, ninv, arg) ==
    LET w1 == Push(w, p, error)
    IN  IF ~contingency.present
        THEN Outcome(w1, ninv, arg, <<>>, 0)
        ELSE LET w2 == NewResult(w1, contingency.routineName, p)
                 r == RunRoutine(w2, w2.count, contingency.func)
             IN  IF r.threw = <<>>
                 THEN Outcome(r.w, ninv, arg, <<>>, 1)
                 ELSE LET h == CatchPush(r.w, p, r.threw[1])
                      IN  Outcome(h.w, ninv, arg, h.threw, 1)

\* The fail branch with the routine called outside the try block: what the
\* routine throws goes to the caller of the gate.
FailBranch_RoutineUncaught(w, p, error, contingency, ninv, arg) ==
    LET w1 == Push(w, p, error)
    IN  IF ~contingency.present
        THEN Outcome(w1, ninv, arg, <<>>, 0)
        ELSE LET w2 == NewResult(w1, contingency.routineName, p)
                 w3 == [w2 EXCEPT !.child[p] = w2.count]
                 r == RunRoutine(w3, w2.count, contingency.func)
             IN  Outcome(r.w, ninv, arg, r.threw, 1)

\* The fail branch in another order: the child is created and the routine
\* invoked before the error is pushed and the child attached.
FailBranch_RoutineFirst(w, p, error, contingency, ninv, arg) ==
    IF ~contingency.present
    THEN Outcome(Push(w, p, error), ninv, arg, <<>>, 0)
    ELSE LET w1 == NewResult(w, contingency.routineName, p)
             r == RunRoutine(w1, w1.count, contingency.func)
         IN  IF r.threw = <<>>
             THEN LET w2 == Push(r.w, p, error)
                  IN  Outcome([w2 EXCEPT !.child[p] = w1.count], ninv, arg, <<>>, 1)
             ELSE LET h == CatchPush(r.w, p, r.threw[1])
                  IN  Outcome(h.w, ninv, arg, h.threw, 1)

\* The body of `if (fail) { ... }` in failIf and failIfAsync: push the error,
\* then create and attach the child and invoke the routine; all of it is inside
\* the try block, so what the routine throws reaches the catch clause.
FailBranch(w, p, error, contingency, ninv, arg) ==
    LET w1 == Push(w, p, error)
    IN  IF ~contingency.present
        THEN Outcome(w1, ninv, arg, <<>>, 0)
        ELSE LET w2 == NewResult(w1, contingency.routineName, p)
                 w3 == [w2 EXCEPT !.child[p] = w2.count]
                 r == RunRoutine(w3, w2.count, contingency.func)
             IN  IF r.threw = <<>>
                 THEN Outcome(r.w, ninv, arg, <<>>, 1)
                 ELSE LET h == CatchPush(r.w, p, r.threw[1])
                      IN  Outcome(h.w, ninv, arg, h.threw, 1)

\* failIf with the polarity of okIf: the error is pushed when the predicate
\* returns a falsy value.
failIf_Inverted(w, p, predicate, error, contingency) ==
    IF isSuccess(w.reasons[p])
    THEN LET c == Call(predicate, w.stateCache[p])
         IN  IF ~c.threw
             THEN IF ~Truthy(predicate.pval)
                  THEN FailBranch(w, p, error, contingency, c.ninv, c.arg)
                  ELSE Outcome(w, c.ninv, c.arg, <<>>, 0)
             ELSE LET h == CatchPush(w, p, c.exc)
                  IN  Outcome(h.w, c.ninv, c.arg, h.threw, 0)
    ELSE Outcome(w, 0, <<>>, <<>>, 0)

\* failIf without the isSuccess test: a failed pipeline may fail, and spawn,
\* again.
failIf_NoGuard(w, p, predicate, error, contingency) ==
    LET c == Call(predicate, w.stateCache[p])
    IN  IF ~c.threw
        THEN IF Truthy(predicate.pval)
             THEN FailBranch(w, p, error, contingency, c.ninv, c.arg)
             ELSE Outcome(w, c.ninv, c.arg, <<>>, 0)
        ELSE LET h == CatchPush(w, p, c.exc)
             IN  Outcome(h.w, c.ninv, c.arg, h.threw, 0)

\* failIf that creates and attaches the child before it evaluates the
\* predicate.
failIf_EagerChild(w, p, predicate, error, contingency) ==
    IF isSuccess(w.reasons[p])
    THEN LET w0 == IF contingency.present
                   THEN LET n == NewResult(w, contingency.routineName, p)
                        IN  [n EXCEPT !.child[p] = n.count]
                   ELSE w
             c == Call(predicate, w.stateCache[p])
         IN  IF ~c.threw
             THEN IF Truthy(predicate.pval)
                  THEN Outcome(Push(w0, p, error), c.ninv, c.arg, <<>>, 0)
                  ELSE Outcome(w0, c.ninv, c.arg, <<>>, 0)
             ELSE LET h == CatchPush(w0, p, c.exc)
                  IN  Outcome(h.w, c.ninv, c.arg, h.threw, 0)
    ELSE Outcome(w, 0, <<>>, <<>>, 0)

\* Result.failIf(predicate, error, contingency)
failIf(w, p, predicate, error, contingency) ==
    IF isSuccess(w.reasons[p])
    THEN LET c == Call(predicate, w.stateCache[p])
         IN  IF ~c.threw
             THEN IF Truthy(predicate.pval)
                  THEN FailBranch(w, p, error, contingency, c.ninv, c.arg)
                  ELSE Outcome(w, c.ninv, c.arg, <<>>, 0)
             ELSE LET h == CatchPush(w, p, c.exc)
                  IN  Outcome(h.w, c.ninv, c.arg, h.threw, 0)
    ELSE Outcome(w, 0, <<>>, <<>>, 0)

\* ------------------------------------------------------------------ async gates
\* Result.okIfAsync / Result.failIfAsync, up to the await: the predicate is
\* invoked inside the try block and the promise it returns is awaited.
gateAsyncStart(w, p, predicate) ==
    IF isSuccess(w.reasons[p])
    THEN LET c == Call(predicate, w.stateCache[p])
         IN  IF ~c.threw
             THEN Started(Outcome(w, c.ninv, c.arg, <<>>, 0), TRUE)
             ELSE LET h == CatchPush(w, p, c.exc)
                  IN  Started(Outcome(h.w, c.ninv, c.arg, h.threw, 0), FALSE)
    ELSE Started(Outcome(w, 0, <<>>, <<>>, 0), FALSE)

\* okIfAsync that passes only on the value true, unlike okIf.
okIfAsyncSettle_Strict(w, p, predicate, error, arg, ninv) ==
    IF predicate.kind = "ret"
    THEN IF predicate.pval # "true"
         THEN Outcome(Push(w, p, error), ninv, arg, <<>>, 0)
         ELSE Outcome(w, ninv, arg, <<>>, 0)
    ELSE LET h == CatchPush(w, p, predicate.exc)
         IN  Outcome(h.w, ninv, arg, h.threw, 0)

\* Result.okIfAsync(predicate, error), from the settlement on: a rejection
\* makes the await throw into the catch clause.
okIfAsyncSettle(w, p, predicate, error, arg, ninv) ==
    IF predicate.kind = "ret"
    THEN IF ~Truthy(predicate.pval)
         THEN Outcome(Push(w, p, error), ninv, arg, <<>>, 0)
         ELSE Outcome(w, ninv, arg, <<>>, 0)
    ELSE LET h == CatchPush(w, p, predicate.exc)
         IN  Outcome(h.w, ninv, arg, h.threw, 0)

\* failIfAsync that tests isSuccess again after the await and does nothing
\* when the pipeline has failed in the meantime.
failIfAsyncSettle_Recheck(w, p, predicate, error, contingency, arg, ninv) ==
    IF isFailed(w.reasons[p])
    THEN Outcome(w, ninv, arg, <<>>, 0)
    ELSE IF predicate.kind = "ret"
         THEN IF Truthy(predicate.pval)
              THEN FailBranch(w, p, error, contingency, ninv, arg)
              ELSE Outcome(w, ninv, arg, <<>>, 0)
         ELSE LET h == CatchPush(w, p, predicate.exc)
              IN  Outcome(h.w, ninv, arg, h.threw, 0)

\* Result.failIfAsync(predicate, error, contingency), from the settlement on
failIfAsyncSettle(w, p, predicate, error, contingency, arg, ninv) ==
    IF predicate.kind = "ret"
    THEN IF Truthy(predicate.pval)
         THEN FailBranch(w, p, error, contingency, ninv, arg)
         ELSE Outcome(w, ninv, arg, <<>>, 0)
    ELSE LET h == CatchPush(w, p, predicate.exc)
         IN  Outcome(h.w, ninv, arg, h.threw, 0)

\* ------------------------------------------------------------------ state machine
NoCall ==
    [op |-> "none", pipe |-> 0, phase |-> "done", func |-> NoStep,
     ctg |-> NoContingency, ninv |-> 0, arg |-> <<>>, threw |-> <<>>,
     cinv |-> 0, pre |-> [reasons |-> <<>>, stateCache |-> <<>>, child |-> Undefined]]

\* No Result object exists before the first call of an entry point.
Init ==
    /\ reasons = [p \in Pipes |-> <<>>]
    /\ stateCache = [p \in Pipes |-> <<>>]
    /\ routineName = [p \in Pipes |-> ""]
    /\ parent = [p \in Pipes |-> Undefined]
    /\ child = [p \in Pipes |-> Undefined]
    /\ count = 0
    /\ pending = {}
    /\ last = NoCall
    /\ held = NoArray

Allocated == 1..count

\* The caller awaits every async call before it makes its next call: while a
\* call is suspended, the one logical flow that owns the pipelines is too.
\* last describes the call that has just been made; the caller takes note of
\* it (Return) before it makes the next one.
Idle == pending = {} /\ last = NoCall

\* Pipelines that suspended failIfAsync calls may still create.
Reserved == Cardinality({c \in pending : c.ctg.present})

CanAllocate == count + Reserved < MaxPipes

\* What the caller could see of pipeline p when the call began.
Snapshot(w, p) ==
    [reasons |-> w.reasons[p], stateCache |-> w.stateCache[p], child |-> w.child[p]]

Commit(w) ==
    /\ reasons' = w.reasons
    /\ stateCache' = w.stateCache
    /\ routineName' = w.routineName
    /\ parent' = w.parent
    /\ child' = w.child
    /\ count' = w.count

\* The call the caller made last, and what it observed of it.
Record(op, p, func, ctg, o, phase, pre) ==
    /\ last' = [op |-> op, pipe |-> p, phase |-> phase, func |-> func, ctg |-> ctg,
                ninv |-> o.ninv, arg |-> o.arg, threw |-> o.threw, cinv |-> o.cinv,
                pre |-> pre]
    /\ UNCHANGED held

Suspend(op, p, func, ctg, o, pre) ==
    pending' = pending \cup
        {[op |-> op, pipe |-> p, func |-> func, ctg |-> ctg, arg |-> o.arg,
          ninv |-> o.ninv, pre |-> pre]}

\* A synchronous call on pipeline p.
SyncCall(op, p, func, ctg, o) ==
    /\ Commit(o.w)
    /\ Record(op, p, func, ctg, o, "done", Snapshot(World, p))
    /\ UNCHANGED pending

\* The synchronous part of an async call on pipeline p.
AsyncCall(op, p, func, ctg, s, pre) ==
    /\ Commit(s.o.w)
    /\ Record(op, p, func, ctg, s.o, IF s.susp THEN "suspended" ELSE "done", pre)
    /\ IF s.susp THEN Suspend(op, p, func, ctg, s.o, pre) ELSE UNCHANGED pending

\* The continuation of the suspended call c.
Resume(c, o) ==
    /\ Commit(o.w)
    /\ Record(c.op, c.pipe, c.func, c.ctg, o, "done", c.pre)
    /\ pending' = pending \ {c}

\* One chain is followed: the root pipeline is the first Result created, every
\* later one is a contingency child.
Try ==
    /\ count = 0
    /\ Idle
    /\ \E action \in Actions :
          LET o == try(World, action, "Primary route")
          IN  /\ Commit(o.w)
              /\ Record("try", o.w.count, action, NoContingency, o, "done",
                        Snapshot(NewResult(World, "Primary route", Undefined), o.w.count))
              /\ UNCHANGED pending

TryAsync ==
    /\ count = 0
    /\ Idle
    /\ \E action \in AsyncActions :
          LET s == tryAsyncStart(World, action, "Primary route")
          IN  AsyncCall("tryAsync", s.o.w.count, action, NoContingency, s,
                        Snapshot(NewResult(World, "Primary route", Undefined), s.o.w.count))

TryAsyncSettle ==
    \E c \in pending :
        /\ c.op = "tryAsync"
        /\ Resume(c, tryAsyncSettle(World, c.pipe, c.func, c.arg, c.ninv))

Bind ==
    /\ Idle
    /\ \E p \in Allocated, func \in StepFuncs :
        /\ SyncCall("bind", p, func, NoContingency, bind(World, p, func))

BindAsync ==
    /\ Idle
    /\ \E p \in Allocated, func \in AsyncStepFuncs :
        /\ AsyncCall("bindAsync", p, func, NoContingency,
                     bindAsyncStart(World, p, func), Snapshot(World, p))

BindAsyncSettle ==
    \E c \in pending :
        /\ c.op = "bindAsync"
        /\ Resume(c, bindAsyncSettle(World, c.pipe, c.func, c.arg, c.ninv))

OkIf ==
    /\ Idle
    /\ \E p \in Allocated, predicate \in Predicates :
        /\ SyncCall("okIf", p, predicate, NoContingency,
                    okIf(World, p, predicate, TestError))

OkIfAsync ==
    /\ Idle
    /\ \E p \in Allocated, predicate \in AsyncPredicates :
        /\ AsyncCall("okIfAsync", p, predicate, NoContingency,
                     gateAsyncStart(World, p, predicate), Snapshot(World, p))

OkIfAsyncSettle ==
    \E c \in pending :
        /\ c.op = "okIfAsync"
        /\ Resume(c, okIfAsyncSettle(World, c.pipe, c.func, TestError, c.arg, c.ninv))

FailIf ==
    /\ Idle
    /\ \E p \in Allocated, predicate \in Predicates, contingency \in Contingencies :
        /\ contingency.present => CanAllocate
        /\ SyncCall("failIf", p, predicate, contingency,
                    failIf(World, p, predicate, TestError, contingency))

FailIfAsync ==
    /\ Idle
    /\ \E p \in Allocated, predicate \in AsyncPredicates, contingency \in Contingencies :
        /\ contingency.present => CanAllocate
        /\ AsyncCall("failIfAsync", p, predicate, contingency,
                     gateAsyncStart(World, p, predicate), Snapshot(World, p))

FailIfAsyncSettle ==
    \E c \in pending :
        /\ c.op = "failIfAsync"
        /\ Resume(c, failIfAsyncSettle(World, c.pipe, c.func, TestError, c.ctg,
                                       c.arg, c.ninv))

\* The caller reads result.currentState.
ReadCurrentState ==
    /\ Idle
    /\ \E p \in Allocated :
        /\ LET r == currentState(stateCache[p])
           IN  last' = [NoCall EXCEPT !.op = "currentState", !.pipe = p,
                                      !.arg = r.val,
                                      !.threw = IF r.threw THEN <<"NoState">> ELSE <<>>,
                                      !.pre = Snapshot(World, p)]
        /\ UNCHANGED <<reasons, stateCache, routineName, parent, child, count, pending,
                       held>>

\* What the caller may do to an array it holds.
ArrayMutations == {"push", "pop", "reverse"}

\* list.push(e), list.pop(), list.reverse()
Mutated(list, m) ==
    IF m = "push" THEN Append(list, TestError)
    ELSE IF m = "pop"
         THEN IF list = <<>> THEN list ELSE SubSeq(list, 1, Len(list) - 1)
         ELSE [i \in 1..Len(list) |-> list[Len(list) + 1 - i]]

\* The caller reads result.reasons and keeps the array.
ReadReasons ==
    /\ Idle
    /\ \E p \in Allocated :
          /\ held' = reasonsGetter(reasons[p], p)
          /\ last' = [NoCall EXCEPT !.op = "reasons", !.pipe = p,
                                     !.pre = Snapshot(World, p)]
    /\ UNCHANGED <<reasons, stateCache, routineName, parent, child, count, pending>>

\* The caller changes the array it holds.  An array is an object: when it is
\* the one the pipeline keeps, the pipeline sees the change.
MutateReasons ==
    /\ pending = {}
    /\ last.op = "reasons"
    /\ \E m \in ArrayMutations :
          /\ held' = [held EXCEPT !.list = Mutated(held.list, m)]
          /\ reasons' = IF held.alias
                        THEN [reasons EXCEPT ![held.pipe] = Mutated(held.list, m)]
                        ELSE reasons
    /\ last' = [last EXCEPT !.op = "mutate"]
    /\ UNCHANGED <<stateCache, routineName, parent, child, count, pending>>

\* The call has returned (or its promise has settled) and the caller has
\* looked at the result: the pipelines stay as they are.
Return ==
    /\ last # NoCall
    /\ last.phase = "done"
    /\ last' = NoCall
    /\ held' = NoArray
    /\ UNCHANGED <<reasons, stateCache, routineName, parent, child, count, pending>>

Next ==
    \/ Try
    \/ TryAsync
    \/ TryAsyncSettle
    \/ Bind
    \/ BindAsync
    \/ BindAsyncSettle
    \/ OkIf
    \/ OkIfAsync
    \/ OkIfAsyncSettle
    \/ FailIf
    \/ FailIfAsync
    \/ FailIfAsyncSettle
    \/ ReadCurrentState
    \/ ReadReasons
    \/ MutateReasons
    \/ Return

Spec == Init /\ [][Next]_vars

\* ------------------------------------------------------------------ properties
\* The reason kinds the data model counts as errors.
ErrorKinds == {"TestError", "ExceptionalError", "PromiseRejection"}

HasErrorKind(rs) == \E i \in 1..Len(rs) : rs[i].kind \in ErrorKinds

\* new extends old by at least one reason of an error kind.
AppendsError(old, new) ==
    /\ Len(new) > Len(old)
    /\ SubSeq(new, 1, Len(old)) = old
    /\ \E i \in (Len(old) + 1)..Len(new) : new[i].kind \in ErrorKinds

\* The pipeline of the last call is as the caller found it.
Untouched ==
    /\ reasons[last.pipe] = last.pre.reasons
    /\ stateCache[last.pipe] = last.pre.stateCache
    /\ child[last.pipe] = last.pre.child

\* The delegate of the last call was invoked and faulted.
Faulted == last.ninv = 1 /\ last.func.kind \in {"throw", "reject"}

\* The reason the data model prescribes for that fault.
FaultReason ==
    [kind |-> IF last.func.kind = "reject" THEN "PromiseRejection" ELSE "ExceptionalError",
     message |-> "\"x\"", payload |-> last.func.exc]

\* The same, whatever the message.
IsFaultReason(r) == r.kind = FaultReason.kind /\ r.payload = FaultReason.payload

\* C1: on a pipeline that is already failed, bind and bindAsync complete at
\* once, do not invoke the step, and leave reasons, cached state and child
\* as they were.
C1_ShortCircuit ==
    (last.op \in {"bind", "bindAsync"} /\ isFailed(last.pre.reasons))
        => (last.phase = "done" /\ last.ninv = 0 /\ last.threw = <<>> /\ Untouched)

C1_Witness ==
    /\ last.op = "bindAsync"
    /\ last.func.kind = "ret"
    /\ last.func.arity = 1
    /\ isFailed(last.pre.reasons)
    /\ Len(last.pre.stateCache) = 1

\* C2: a failed pipeline never becomes successful again, and a pipeline goes
\* from success to failed in exactly the steps that append an error reason.
C2_FailedAbsorbing ==
    [][\A p \in Pipes :
          /\ isFailed(reasons[p]) => isFailed(reasons'[p])
          /\ (isSuccess(reasons[p]) /\ isFailed(reasons'[p]))
                <=> (isSuccess(reasons[p]) /\ AppendsError(reasons[p], reasons'[p]))]_vars

C2_Witness ==
    /\ last.op = "okIf"
    /\ last.func.pval = "true"
    /\ isFailed(last.pre.reasons)
    /\ isFailed(reasons[last.pipe])
    /\ Len(reasons[last.pipe]) = 2

\* C3: at every moment and for every pipeline, isSuccess is the negation of
\* isFailed, and isFailed holds exactly when reasons holds a reason of an
\* error kind.
C3_SuccessIsNotFailed ==
    \A p \in Pipes :
        /\ isSuccess(reasons[p]) = ~isFailed(reasons[p])
        /\ isFailed(reasons[p]) <=> HasErrorKind(reasons[p])

C3_Witness ==
    /\ count = 2
    /\ isFailed(reasons[1])
    /\ isSuccess(reasons[2])
    /\ Len(errors(reasons[1])) = 2
    /\ errors(reasons[1])[2].kind = "ExceptionalError"

\* C4: when the step of bind throws, or the operation returned by the step of
\* bindAsync rejects, on a successful pipeline, the matching error
\* (ExceptionalError for a throw, PromiseRejection for a rejection) is
\* appended and the state cache keeps the value it held.
C4_LastGoodStateRetained ==
    (last.op \in {"bind", "bindAsync"} /\ last.phase = "done"
        /\ isSuccess(last.pre.reasons) /\ Faulted)
        => /\ Len(reasons[last.pipe]) = Len(last.pre.reasons) + 1
           /\ IsFaultReason(reasons[last.pipe][Len(reasons[last.pipe])])
           /\ stateCache[last.pipe] = last.pre.stateCache

\* The value the step of the last call computes from the state it was given.
Produced ==
    IF last.func.arity = 0
    THEN last.func.val
    ELSE (last.pre.stateCache[1] + last.func.val) % NumVals

\* C5 as stated, read on a contingency child (a pipeline that is successful
\* from its creation on): bind/bindAsync invoke the step exactly once, a
\* one-argument step with the cached state and a zero-argument step with
\* nothing; when the step completes normally its value replaces the cached
\* state and no reason is appended.
C5_Original ==
    (last.op \in {"bind", "bindAsync"} /\ isSuccess(last.pre.reasons)
        /\ parent[last.pipe] # Undefined)
        => /\ last.ninv = 1
           /\ last.arg = IF last.func.arity = 0 THEN <<>> ELSE last.pre.stateCache
           /\ (last.phase = "done" /\ last.func.kind = "ret")
                => /\ stateCache[last.pipe] = <<Produced>>
                   /\ reasons[last.pipe] = last.pre.reasons
                   /\ last.threw = <<>>

\* C5 (amended): the same, for a zero-argument step and for a one-argument
\* step on a pipeline whose cache holds a value.
C5_StepInvokedOnce ==
    (last.op \in {"bind", "bindAsync"} /\ isSuccess(last.pre.reasons)
        /\ (last.func.arity = 0 \/ Len(last.pre.stateCache) = 1))
        => /\ last.ninv = 1
           /\ last.arg = IF last.func.arity = 0 THEN <<>> ELSE last.pre.stateCache
           /\ (last.phase = "done" /\ last.func.kind = "ret")
                => /\ stateCache[last.pipe] = <<Produced>>
                   /\ reasons[last.pipe] = last.pre.reasons
                   /\ isSuccess(reasons[last.pipe])
                   /\ last.threw = <<>>

C5_Witness ==
    /\ last.op = "bindAsync"
    /\ last.phase = "done"
    /\ last.func.kind = "ret"
    /\ last.func.arity = 1
    /\ last.func.val = 1
    /\ isSuccess(last.pre.reasons)
    /\ last.pre.stateCache = <<1>>
    /\ stateCache[last.pipe] = <<0>>

\* C6: try invokes the action once and returns without throwing; when the
\* action returned, the pipeline has no reasons and caches the value; when
\* the action threw, the pipeline has exactly one reason, an ExceptionalError
\* wrapping the thrown value, and an empty cache.
C6_TryCapturesThrow ==
    last.op = "try"
        => /\ last.ninv = 1
           /\ last.threw = <<>>
           /\ last.func.kind = "ret"
                => (reasons[last.pipe] = <<>> /\ stateCache[last.pipe] = <<last.func.val>>)
           /\ last.func.kind = "throw"
                => /\ Len(reasons[last.pipe]) = 1
                   /\ IsFaultReason(reasons[last.pipe][1])
                   /\ stateCache[last.pipe] = <<>>

\* C7: tryAsync records a rejection of the returned operation as exactly one
\* PromiseRejection carrying the rejection value, and a throw of the action
\* as exactly one ExceptionalError; neither caches a state; a resolution
\* caches the value and records no reason.
C7_TryAsyncFaultKinds ==
    (last.op = "tryAsync" /\ last.phase = "done")
        => /\ last.func.kind = "ret"
                => (reasons[last.pipe] = <<>> /\ stateCache[last.pipe] = <<last.func.val>>)
           /\ last.func.kind \in {"throw", "reject"}
                => /\ Len(reasons[last.pipe]) = 1
                   /\ IsFaultReason(reasons[last.pipe][1])
                   /\ stateCache[last.pipe] = <<>>

\* C8: the state cache never holds more than one value; reading currentState
\* gives the cached value when there is one and throws 'No state present'
\* exactly when the cache is empty.
C8_SingleSlotCache ==
    /\ \A p \in Pipes : Len(stateCache[p]) <= 1
    /\ last.op = "currentState"
        => /\ (last.threw = <<"NoState">>) <=> (stateCache[last.pipe] = <<>>)
           /\ stateCache[last.pipe] # <<>>
                => (last.threw = <<>> /\ last.arg = <<stateCache[last.pipe][1]>>)

C8_Witness ==
    /\ last.op = "currentState"
    /\ last.threw = <<"NoState">>
    /\ last.pipe = 1
    /\ isFailed(reasons[1])

\* C9: no entry point and no chaining operation throws to, or rejects toward,
\* its caller, whatever the delegate throws or rejects with.
C9_NeverThrows ==
    last.op \in {"try", "tryAsync", "bind", "bindAsync", "okIf", "okIfAsync",
                 "failIf", "failIfAsync"}
        => last.threw = <<>>

\* C10: on a successful pipeline whose predicate returns (or resolves to) a
\* value, okIf/okIfAsync append the supplied error unless that value is
\* exactly true, and leave the state cache alone.
C10_OkIfExactlyTrue ==
    (last.op \in {"okIf", "okIfAsync"} /\ last.phase = "done"
        /\ isSuccess(last.pre.reasons) /\ last.ninv = 1 /\ last.func.kind = "ret")
        => /\ stateCache[last.pipe] = last.pre.stateCache
           /\ reasons[last.pipe] =
                IF last.func.pval = "true"
                THEN last.pre.reasons
                ELSE Append(last.pre.reasons, TestError)

\* The four gate operations.
Gates == {"okIf", "okIfAsync", "failIf", "failIfAsync"}

FailGates == {"failIf", "failIfAsync"}

\* The call observed last is a completed failIf or failIfAsync on a pipeline
\* that was successful, and its predicate was evaluated and produced pval.
FailGateReturned(pval) ==
    /\ last.op \in FailGates
    /\ last.phase = "done"
    /\ isSuccess(last.pre.reasons)
    /\ last.ninv = 1
    /\ last.func.kind = "ret"
    /\ last.func.pval = pval

C12_GatesSkipFailed ==
    (last.op \in Gates /\ isFailed(last.pre.reasons))
        => /\ last.phase = "done"
           /\ last.ninv = 0
           /\ last.cinv = 0
           /\ last.threw = <<>>
           /\ Untouched
           /\ Len(reasons[last.pipe]) = Len(last.pre.reasons)

C12_Witness ==
    /\ last.op = "failIf"
    /\ isFailed(last.pre.reasons)
    /\ last.func.pval = "true"
    /\ last.func.arity = 0
    /\ last.ctg.present
    /\ last.pre.child = Undefined
    /\ child[last.pipe] = Undefined

\* The call observed last is a completed gate call on a pipeline that was
\* successful, and its predicate was evaluated and threw.
GatePredicateThrew ==
    /\ last.op \in Gates
    /\ last.phase = "done"
    /\ isSuccess(last.pre.reasons)
    /\ last.ninv = 1
    /\ last.func.kind = "throw"

\* C13: when the predicate of okIf, okIfAsync, failIf or failIfAsync throws on
\* a successful pipeline, the reasons of the pipeline are those it had followed
\* by exactly one ExceptionalError wrapping the thrown value, and the supplied
\* domain error is not among them.
C13_PredicateThrowRecorded ==
    GatePredicateThrew =>
        /\ Len(reasons[last.pipe]) = Len(last.pre.reasons) + 1
        /\ SubSeq(reasons[last.pipe], 1, Len(last.pre.reasons)) = last.pre.reasons
        /\ reasons[last.pipe][Len(reasons[last.pipe])].kind = "ExceptionalError"
        /\ reasons[last.pipe][Len(reasons[last.pipe])].payload = last.func.exc
        /\ \A i \in 1..Len(reasons[last.pipe]) : reasons[last.pipe][i] # TestError

\* The call observed last is a completed failIf or failIfAsync with a
\* contingency on a pipeline that was successful, and its predicate was
\* evaluated and threw, or returned a promise that rejected.
FailGateFaulted ==
    /\ last.op \in FailGates
    /\ last.phase = "done"
    /\ isSuccess(last.pre.reasons)
    /\ last.ctg.present
    /\ Faulted

\* C14: a predicate of failIf or failIfAsync that throws, or whose promise
\* rejects, does not trigger the contingency: the pipeline ends failed, the
\* routine is not invoked and child stays undefined.
C14_FaultSuppressesContingency ==
    FailGateFaulted =>
        /\ isFailed(reasons[last.pipe])
        /\ last.cinv = 0
        /\ child[last.pipe] = Undefined

\* C15: when the promise returned by the predicate of okIfAsync or failIfAsync
\* rejects, the reason appended to the pipeline is a PromiseRejection carrying
\* the rejection value.  Read on a rejection value that can be serialised.
C15_GateRejectionKind ==
    ( /\ last.op \in {"okIfAsync", "failIfAsync"}
      /\ last.phase = "done"
      /\ isSuccess(last.pre.reasons)
      /\ last.ninv = 1
      /\ last.func.kind = "reject"
      /\ last.func.exc = "x" )
        => /\ Len(reasons[last.pipe]) = Len(last.pre.reasons) + 1
           /\ reasons[last.pipe][Len(reasons[last.pipe])].kind = "PromiseRejection"
           /\ reasons[last.pipe][Len(reasons[last.pipe])].payload = "x"

\* The call observed last is a completed failIf or failIfAsync with a
\* contingency on a pipeline that was successful, and its predicate was
\* evaluated and returned true.
ContingencySpawned == FailGateReturned("true") /\ last.ctg.present

RoutineThrew ==
    /\ last.op \in FailGates
    /\ last.phase = "done"
    /\ isSuccess(last.pre.reasons)
    /\ last.cinv = 1
    /\ last.ctg.func.kind = "throw"

\* C17, as the claim states it: an exception thrown by the contingency routine
\* is not caught by failIf or failIfAsync, and after the call the reasons of
\* the parent pipeline hold the supplied domain error and nothing else.
C17_Original ==
    RoutineThrew => reasons[last.pipe] = Append(last.pre.reasons, TestError)

\* C17: an exception thrown by the contingency routine is caught by failIf and
\* failIfAsync and never reaches the caller as such.  The supplied domain error
\* is appended and the child stays attached; when the call completes normally
\* the reasons of the parent pipeline are the domain error followed by exactly
\* one ExceptionalError wrapping the thrown value.
C17_RoutineThrowCaught ==
    RoutineThrew =>
        /\ last.threw # <<last.ctg.func.exc>>
        /\ Len(reasons[last.pipe]) > Len(last.pre.reasons)
        /\ reasons[last.pipe][Len(last.pre.reasons) + 1] = TestError
        /\ child[last.pipe] = count
        /\ last.threw = <<>> =>
              /\ Len(reasons[last.pipe]) = Len(last.pre.reasons) + 2
              /\ reasons[last.pipe][Len(reasons[last.pipe])].kind = "ExceptionalError"
              /\ reasons[last.pipe][Len(reasons[last.pipe])].payload = last.ctg.func.exc

C17_Witness ==
    /\ RoutineThrew
    /\ last.threw = <<>>
    /\ last.op = "failIf"
    /\ Len(reasons[last.pipe]) = 2
    /\ reasons[last.pipe][2].kind = "ExceptionalError"
    /\ reasons[last.pipe][2].payload = last.ctg.func.exc

\* C18: in every step, a pipeline whose child is defined keeps that child: it
\* is not replaced by another pipeline and not cleared; and no pipeline is the
\* parent of more than one pipeline.
C18_ChildSetOnce ==
    [][\A p \in Pipes :
          /\ child[p] # Undefined => child'[p] = child[p]
          /\ Cardinality({c \in Pipes : parent'[c] = p}) <= 1]_vars

C18_Witness ==
    /\ last.op = "failIf"
    /\ last.phase = "done"
    /\ last.ctg.present
    /\ last.func.arity = 0
    /\ last.func.pval = "true"
    /\ last.pre.child # Undefined
    /\ child[last.pipe] = last.pre.child
    /\ count < MaxPipes

\* C19: in every reachable state, at any depth of nesting, the parent of the
\* child of a pipeline is that pipeline; a pipeline that has a parent is the
\* child of that parent and carries the routine name of a contingency; and a
\* pipeline created by try or tryAsync has no parent.
C19_ParentChildLinks ==
    /\ \A p \in Allocated :
          /\ child[p] # Undefined =>
                (child[p] \in Allocated /\ parent[child[p]] = p)
          /\ parent[p] # Undefined =>
                /\ parent[p] \in Allocated
                /\ child[parent[p]] = p
                /\ routineName[p] = "Contingent route"
          /\ routineName[p] = "Primary route" => parent[p] = Undefined
    /\ last.op \in {"try", "tryAsync"} => parent[last.pipe] = Undefined

C19_Witness ==
    /\ count = 3
    /\ child[1] = 2
    /\ child[2] = 3
    /\ parent[3] = 2
    /\ parent[2] = 1
    /\ parent[1] = Undefined
    /\ last.op = "failIfAsync"
    /\ last.pipe = 2

Chained == {"bind", "bindAsync"} \cup Gates

\* The operations whose delegate produces the next state.
Producing == {"try", "tryAsync", "bind", "bindAsync"}

\* C21, as the claim states it, read on contingency children: a pipeline that
\* is successful holds a cached state.
C21_Original ==
    \A p \in Allocated :
        (parent[p] # Undefined /\ isSuccess(reasons[p])) => stateCache[p] # <<>>

\* C21: a successful pipeline need not hold a cached state.  A contingency
\* child whose routine chains no step is successful with an empty cache when
\* the spawning call completes; a cache that was empty holds a value after a
\* call only when that call is a producing step whose delegate was invoked and
\* returned; and a one-argument step or predicate chained on a successful
\* pipeline whose cache is empty is not invoked: the read of the state throws
\* and exactly one ExceptionalError for it is appended.
C21_SuccessWithoutState ==
    /\ (ContingencySpawned /\ last.ctg.func.kind # "bind") =>
          /\ isSuccess(reasons[child[last.pipe]])
          /\ stateCache[child[last.pipe]] = <<>>
    /\ (last.phase = "done" /\ last.op # "none" /\ last.pre.stateCache = <<>>
            /\ stateCache[last.pipe] # <<>>) =>
          /\ last.op \in Producing
          /\ last.func.kind = "ret"
          /\ last.ninv = 1
          /\ isSuccess(last.pre.reasons)
    /\ (last.op \in Chained /\ isSuccess(last.pre.reasons)
            /\ last.pre.stateCache = <<>> /\ last.func.arity = 1) =>
          /\ last.phase = "done"
          /\ last.ninv = 0
          /\ last.threw = <<>>
          /\ Len(reasons[last.pipe]) = Len(last.pre.reasons) + 1
          /\ reasons[last.pipe][Len(reasons[last.pipe])].kind = "ExceptionalError"
          /\ reasons[last.pipe][Len(reasons[last.pipe])].payload = "NoState"
          /\ stateCache[last.pipe] = <<>>

C21_Witness ==
    /\ last.op = "okIfAsync"
    /\ last.phase = "done"
    /\ last.func.arity = 1
    /\ last.func.kind = "ret"
    /\ parent[last.pipe] # Undefined
    /\ last.pre.reasons = <<>>
    /\ last.pre.stateCache = <<>>
    /\ isFailed(reasons[last.pipe])

\* C22: in every step that belongs to a call made on a pipeline p that exists
\* already, if p has a child then the reasons and the cached state of that
\* child stay as they are, and if p has a parent then the reasons, the cached
\* state and the child link of that parent stay as they are.
C22_ParentChildFrame ==
    [][(last'.op # "none" /\ last'.pipe \in Allocated) =>
          /\ child[last'.pipe] # Undefined =>
                /\ reasons'[child[last'.pipe]] = reasons[child[last'.pipe]]
                /\ stateCache'[child[last'.pipe]] = stateCache[child[last'.pipe]]
          /\ parent[last'.pipe] # Undefined =>
                /\ reasons'[parent[last'.pipe]] = reasons[parent[last'.pipe]]
                /\ stateCache'[parent[last'.pipe]] = stateCache[parent[last'.pipe]]
                /\ child'[parent[last'.pipe]] = child[parent[last'.pipe]]]_vars

C22_Witness ==
    /\ last.op = "failIf"
    /\ last.pipe = 2
    /\ ContingencySpawned
    /\ last.ctg.func.kind = "throw"
    /\ last.ctg.func.exc = "x"
    /\ Len(reasons[2]) = 2
    /\ child[2] = 3
    /\ child[1] = 2
    /\ reasons[1] = <<TestError>>
    /\ stateCache[1] # <<>>

\* C23: the array the reasons getter returns is a copy.  After the caller has
\* added to it, removed from it or reordered it, the reasons of the pipeline,
\* its errors and its isFailed and isSuccess values are what they were when the
\* array was read, and the same holds for every other pipeline.
C23_ReasonsDefensiveCopy ==
    /\ [][last'.op = "mutate" => reasons' = reasons]_vars
    /\ [](last.op = "mutate" =>
             /\ reasons[last.pipe] = last.pre.reasons
             /\ errors(reasons[last.pipe]) = errors(last.pre.reasons)
             /\ isFailed(reasons[last.pipe]) = isFailed(last.pre.reasons)
             /\ isSuccess(reasons[last.pipe]) = isSuccess(last.pre.reasons))

C23_Witness ==
    /\ last.op = "mutate"
    /\ held.pipe = last.pipe
    /\ isSuccess(reasons[last.pipe])
    /\ held.list = <<TestError>>

\* ------------------------------------------------------------------ the list of reasons
\* _reasons is declared AReason[] and holds "informational messages and
\* errors": a reason that is not an AError is an informational one.  The
\* operations of Result push errors only, so the getters are also exercised on
\* lists that a pipeline is given reason by reason, of either sort.
MaxReasons == 4

InfoReason == [kind |-> "InfoReason", message |-> "info", payload |-> "none"]

ErrorPool == {TestError, ExceptionalError("x").val, PromiseRejection("x").val}

\* this._reasons.push(r) for an informational reason
PushInfo ==
    /\ Len(reasons[1]) < MaxReasons
    /\ reasons' = [reasons EXCEPT ![1] = Append(@, InfoReason)]
    /\ count' = 1
    /\ UNCHANGED <<stateCache, routineName, parent, child, pending, last, held>>

\* this._reasons.push(r) for an error
PushError ==
    /\ Len(reasons[1]) < MaxReasons
    /\ \E r \in ErrorPool : reasons' = [reasons EXCEPT ![1] = Append(@, r)]
    /\ count' = 1
    /\ UNCHANGED <<stateCache, routineName, parent, child, pending, last, held>>

NextReasons == PushInfo \/ PushError

SpecReasons == Init /\ [][NextReasons]_vars

\* The reasons of an error kind, in the order they have in rs.
RECURSIVE KeepErrors(_)
KeepErrors(rs) ==
    IF rs = <<>> THEN <<>>
    ELSE IF Head(rs).kind \in ErrorKinds
         THEN <<Head(rs)>> \o KeepErrors(Tail(rs))
         ELSE KeepErrors(Tail(rs))

\* C24: for every pipeline, errors is the subsequence of reasons made of the
\* reasons of an error kind, in the same relative order, and it is non-empty
\* exactly when the pipeline is failed.
C24_ErrorsSubsequence ==
    \A p \in Pipes :
        /\ errors(reasons[p]) = KeepErrors(reasons[p])
        /\ errors(reasons[p]) # <<>> <=> isFailed(reasons[p])

C24_Witness ==
    /\ Len(reasons[1]) = 4
    /\ reasons[1][1].kind = "InfoReason"
    /\ reasons[1][2].kind = "PromiseRejection"
    /\ reasons[1][3].kind = "InfoReason"
    /\ reasons[1][4].kind = "TestError"
    /\ Len(errors(reasons[1])) = 2

\* An informational reason is recorded on the root pipeline before any other
\* reason: the pipeline stays successful and its reasons are not empty.
RecordInfo ==
    /\ Idle
    /\ count >= 1
    /\ reasons[1] = <<>>
    /\ reasons' = [reasons EXCEPT ![1] = <<InfoReason>>]
    /\ UNCHANGED <<stateCache, routineName, parent, child, count, pending, last, held>>

NextAppend == Next \/ RecordInfo

SpecAppend == Init /\ [][NextAppend]_vars

\* old is a prefix of new.
IsPrefix(old, new) ==
    /\ Len(new) >= Len(old)
    /\ SubSeq(new, 1, Len(old)) = old

\* C25: the reasons of a pipeline are append-only.  In every step the reasons
\* every pipeline had are a prefix of the reasons it has afterwards; and when a
\* call has triggered a contingency, the supplied error stands right after the
\* reasons the pipeline had before the call.
C25_ReasonsAppendOnly ==
    /\ [][\A p \in Pipes : IsPrefix(reasons[p], reasons'[p])]_vars
    /\ [](ContingencySpawned =>
             /\ IsPrefix(last.pre.reasons, reasons[last.pipe])
             /\ reasons[last.pipe][Len(last.pre.reasons) + 1] = TestError)

C25_Witness ==
    /\ ContingencySpawned
    /\ last.pre.reasons = <<InfoReason>>
    /\ Len(reasons[last.pipe]) = 3
    /\ reasons[last.pipe][3].kind = "ExceptionalError"

\* The call observed last is a bindAsync or tryAsync call whose delegate was
\* invoked and returned an asynchronous operation.
AwaitsOperation ==
    /\ last.op \in {"bindAsync", "tryAsync"}
    /\ last.ninv = 1
    /\ last.func.kind \in {"ret", "reject"}

\* C26: a bindAsync or tryAsync call whose delegate returned an asynchronous
\* operation does not complete before that operation has settled.  The call is
\* suspended first, and while it is suspended the pipeline shows nothing of the
\* operation; the step that completes the call is the settlement; and when the
\* call has completed the cache holds the resolved value, or the pipeline is
\* failed by exactly one reason recorded for the rejection (a PromiseRejection
\* carrying the value, when the value can be serialised).
C26_CompletesAfterSettlement ==
    /\ []((AwaitsOperation /\ last.phase = "suspended") =>
             /\ reasons[last.pipe] = last.pre.reasons
             /\ stateCache[last.pipe] = last.pre.stateCache
             /\ \E c \in pending : c.op = last.op /\ c.pipe = last.pipe)
    /\ []((AwaitsOperation /\ last.phase = "done") =>
             /\ last.func.kind = "ret" =>
                   /\ stateCache[last.pipe] = <<Produced>>
                   /\ reasons[last.pipe] = last.pre.reasons
             /\ last.func.kind = "reject" =>
                   /\ isFailed(reasons[last.pipe])
                   /\ Len(reasons[last.pipe]) = Len(last.pre.reasons) + 1
                   /\ stateCache[last.pipe] = last.pre.stateCache
                   /\ last.func.exc = "x" =>
                         reasons[last.pipe][Len(reasons[last.pipe])] =
                             [kind |-> "PromiseRejection", message |-> "\"x\"",
                              payload |-> "x"])
    /\ [][(AwaitsOperation' /\ last'.phase = "done") =>
             \E c \in pending : /\ c.op = last'.op
                                /\ c.pipe = last'.pipe
                                /\ c \notin pending']_vars

C26_Witness ==
    /\ AwaitsOperation
    /\ last.phase = "done"
    /\ last.op = "bindAsync"
    /\ last.func.kind = "reject"
    /\ last.func.exc = "x"
    /\ last.pre.stateCache = <<1>>
    /\ stateCache[last.pipe] = <<1>>
    /\ Len(reasons[last.pipe]) = 1

AsyncOps == {"tryAsync", "bindAsync", "okIfAsync", "failIfAsync"}

\* All Result objects after the step.
WorldAfter ==
    [reasons |-> reasons', stateCache |-> stateCache', routineName |-> routineName',
     parent |-> parent', child |-> child', count |-> count']

\* What the synchronous counterpart of the async call that completes in this
\* step, given a delegate that returns what the async delegate resolves with,
\* makes of the pipelines as they were before the call.  Nothing changes while
\* a call is suspended, so these are the pipelines before the step; for
\* tryAsync the root pipeline the call has created is left out.
SyncCounterpart ==
    IF last'.op = "tryAsync"
    THEN try([World EXCEPT !.count = last'.pipe - 1], last'.func,
             routineName'[last'.pipe])
    ELSE IF last'.op = "bindAsync"
    THEN bind(World, last'.pipe, last'.func)
    ELSE IF last'.op = "okIfAsync"
    THEN okIf(World, last'.pipe, last'.func, TestError)
    ELSE failIf(World, last'.pipe, last'.func, TestError, last'.ctg)

\* C27: an async operation whose delegate does not return a rejecting
\* operation leaves every pipeline as its synchronous counterpart, called at
\* the same point with a delegate returning the same value, would: the same
\* reasons, cached state (hence success flag), child, parent and routine name,
\* and the delegate is invoked as often and with the same argument.
C27_AsyncMatchesSync ==
    [][(last'.op \in AsyncOps /\ last'.phase = "done" /\ last # last'
            /\ last'.func.kind # "reject") =>
          /\ WorldAfter = SyncCounterpart.w
          /\ last'.ninv = SyncCounterpart.ninv
          /\ last'.arg = SyncCounterpart.arg
          /\ last'.cinv = SyncCounterpart.cinv]_vars

C27_Witness ==
    /\ last.op = "failIfAsync"
    /\ last.phase = "done"
    /\ last.func.kind = "ret"
    /\ last.func.pval = "1"
    /\ last.func.arity = 1
    /\ last.ctg.present
    /\ last.ctg.func.kind = "bind"
    /\ last.cinv = 1
    /\ parent[last.pipe] # Undefined

\* C28: the routine name of a pipeline is the one it was constructed with and
\* never changes: in every state a root pipeline has the name given to try or
\* tryAsync and a contingency child the routine name of its contingency, the
\* child of a call that has just spawned one has the name that call was given,
\* and no step changes the name of a pipeline that exists.
C28_RoutineNameFixed ==
    /\ [][\A p \in Allocated : routineName'[p] = routineName[p]]_vars
    /\ [](\A p \in Allocated :
             routineName[p] = IF parent[p] = Undefined
                              THEN "Primary route"
                              ELSE "Contingent route")
    /\ [](ContingencySpawned =>
             routineName[child[last.pipe]] = last.ctg.routineName)

C28_Witness ==
    /\ count = 3
    /\ last.op = "bind"
    /\ last.pipe = 3
    /\ stateCache[3] # <<>>
    /\ routineName[1] = "Primary route"
    /\ routineName[3] = "Contingent route"
    /\ isFailed(reasons[1])

\* C29: the cached state of a pipeline is the value of the most recent
\* producing step that completed normally on it.  A step changes the cached
\* state of a pipeline only when it completes a producing call (try, tryAsync,
\* bind, bindAsync) made on that pipeline while it was successful and whose
\* delegate was invoked and returned (or resolved), or when it runs the bind
\* of a contingency routine on the child it has just created; the new cached
\* state is then the value that delegate produced.  Whenever such a producing
\* call has completed, the cache holds its value.  Gates, steps that fail and
\* calls on a failed pipeline leave the cache as it is.
C29_CacheIsLatestProduct ==
    /\ [][\A p \in Pipes :
             stateCache'[p] # stateCache[p] =>
                \/ /\ p = last'.pipe
                   /\ last'.op \in Producing
                   /\ last'.phase = "done"
                   /\ last'.func.kind = "ret"
                   /\ last'.ninv = 1
                   /\ isSuccess(last'.pre.reasons)
                   /\ stateCache'[p] = <<Produced'>>
                \/ /\ p = child'[last'.pipe]
                   /\ p \notin Allocated
                   /\ last'.op \in FailGates
                   /\ last'.cinv = 1
                   /\ last'.ctg.func.kind = "bind"
                   /\ stateCache'[p] = <<StepOut(last'.ctg.func.step, <<>>)>>]_vars
    /\ []((last.op \in Producing /\ last.phase = "done" /\ last.func.kind = "ret"
              /\ last.ninv = 1) =>
             stateCache[last.pipe] = <<Produced>>)
    /\ []((last.op \in Gates /\ last.phase = "done") =>
             stateCache[last.pipe] = last.pre.stateCache)

C29_Witness ==
    /\ last.op = "bindAsync"
    /\ last.phase = "done"
    /\ last.func.kind = "ret"
    /\ last.func.arity = 0
    /\ last.func.val = 0
    /\ isFailed(last.pre.reasons)
    /\ last.pre.stateCache = <<1>>
    /\ stateCache[last.pipe] = <<1>>

\* The promise a delegate returned settles when the event loop runs the
\* continuation of the call that awaits it.  Spec leaves open whether that ever
\* happens (an operation may never settle); SpecLive takes every operation a
\* call awaits to settle eventually.
\* The entry points, the async calls and their continuations.  What the caller
\* reads in between plays no part in whether a call completes, and the
\* synchronous steps never suspend: the async steps leave a pipeline in every
\* state the synchronous ones do.
NextLive ==
    \/ Try
    \/ TryAsync
    \/ TryAsyncSettle
    \/ BindAsync
    \/ BindAsyncSettle
    \/ OkIfAsync
    \/ OkIfAsyncSettle
    \/ FailIfAsync
    \/ FailIfAsyncSettle
    \/ Return

SpecLive ==
    /\ Init
    /\ [][NextLive]_vars
    /\ WF_vars(TryAsyncSettle)
    /\ WF_vars(BindAsyncSettle)
    /\ WF_vars(OkIfAsyncSettle)
    /\ WF_vars(FailIfAsyncSettle)

\* C30: an async operation called on a pipeline that is already failed has
\* completed when the call returns: its delegate is not invoked, no call is
\* left suspended and the pipeline is as it was, whatever operation the
\* delegate would have returned.  An async operation that is suspended on a
\* successful pipeline completes eventually, given that the operation its
\* delegate returned settles.
C30_AsyncCompletion ==
    /\ []((last.op \in AsyncOps /\ isFailed(last.pre.reasons)) =>
             /\ last.phase = "done"
             /\ last.ninv = 0
             /\ pending = {}
             /\ Untouched)
    /\ (last.phase = "suspended") ~> (last.phase = "done" /\ pending = {})

C30_Witness ==
    /\ last.op = "okIfAsync"
    /\ last.phase = "done"
    /\ last.func.kind = "reject"
    /\ last.func.exc = "circular"
    /\ isFailed(last.pre.reasons)
    /\ last.ninv = 0
    /\ pending = {}

\* The call observed last is a completed failIf or failIfAsync whose routine
\* was the probe: it looked, while it ran, at the pipeline it detours from.
RoutineProbed ==
    /\ last.op \in FailGates
    /\ last.phase = "done"
    /\ last.cinv = 1
    /\ last.ctg.func.kind = "probe"

\* C31: in a failIf or failIfAsync that triggers its contingency, the supplied
\* error is appended to the parent and the child attached before the routine
\* is invoked: a routine that checks, while it runs, that the parent of its
\* argument is failed and has its argument as child finds it so (it does not
\* throw, so the call records the supplied error and nothing else), and in
\* every state a pipeline that has a child is failed.
C31_ErrorThenChildThenRoutine ==
    /\ \A p \in Allocated : child[p] # Undefined => isFailed(reasons[p])
    /\ RoutineProbed =>
          /\ last.threw = <<>>
          /\ reasons[last.pipe] = Append(last.pre.reasons, TestError)
          /\ child[last.pipe] \in Allocated
          /\ parent[child[last.pipe]] = last.pipe

\* A failIfAsync on a contingency child has spawned a child of its own and run
\* the probe on it.
C31_Witness ==
    /\ RoutineProbed
    /\ last.op = "failIfAsync"
    /\ last.pipe = 2
    /\ child[2] = 3
    /\ isFailed(reasons[2])
    /\ isFailed(reasons[1])

\* A producing step has just completed successfully on contingency child c:
\* a bind or bindAsync the caller chained on it, or the child.bind(step) of
\* the routine that received it.
ProducedOnChild(c) ==
    \/ /\ last.pipe = c
       /\ last.op \in {"bind", "bindAsync"}
       /\ last.phase = "done"
       /\ last.func.kind = "ret"
       /\ last.ninv = 1
    \/ /\ last.op \in FailGates
       /\ last.phase = "done"
       /\ last.cinv = 1
       /\ last.ctg.func.kind = "bind"
       /\ child[last.pipe] = c

\* C32: a child pipeline spawned by a contingency starts successful, with no
\* reasons and an empty state cache, whatever its parent has cached: when the
\* routine chained no step, that is what the child is when the gate completes.
\* Reading currentState of a child whose cache is empty throws the
\* 'No state present' error, and the cache of a child becomes non-empty only
\* in a step that completes a producing step on that child successfully.
C32_FreshChildHasNoState ==
    /\ [](ContingencySpawned /\ last.ctg.func.kind # "bind" =>
             /\ reasons[child[last.pipe]] = <<>>
             /\ isSuccess(reasons[child[last.pipe]])
             /\ stateCache[child[last.pipe]] = <<>>
             /\ currentState(stateCache[child[last.pipe]]).threw)
    /\ [](last.op = "currentState" /\ parent[last.pipe] # Undefined =>
             (last.threw = <<"NoState">>) = (stateCache[last.pipe] = <<>>))
    /\ [][\A c \in Pipes :
             (c \in 1..count' /\ parent'[c] # Undefined
                  /\ stateCache[c] = <<>> /\ stateCache'[c] # <<>>)
             => ProducedOnChild(c)']_vars

\* The caller reads currentState of a fresh child whose parent holds a cached
\* state, and gets the error.
C32_Witness ==
    /\ last.op = "currentState"
    /\ last.pipe = 2
    /\ parent[2] = 1
    /\ stateCache[1] # <<>>
    /\ reasons[2] = <<>>
    /\ stateCache[2] = <<>>
    /\ last.threw = <<"NoState">>

\* The call observed last applied a one-argument step or predicate to a
\* pipeline that was successful and had no cached state.
AppliedWithoutState ==
    /\ last.op \in Chained
    /\ last.func.arity = 1
    /\ isSuccess(last.pre.reasons)
    /\ last.pre.stateCache = <<>>

\* C33: when bind, bindAsync, okIf, okIfAsync, failIf or failIfAsync is given a
\* one-argument delegate on a successful pipeline whose state cache is empty,
\* the call completes without suspending and without throwing, the delegate is
\* not invoked, the reasons grow by exactly one ExceptionalError that wraps
\* the 'No state present' error, the supplied domain error is not appended,
\* no contingency routine runs and no child is created or attached, and the
\* cache stays empty.
C33_NoStateFault ==
    AppliedWithoutState =>
        /\ last.phase = "done"
        /\ last.threw = <<>>
        /\ last.ninv = 0
        /\ last.cinv = 0
        /\ reasons[last.pipe] =
               Append(last.pre.reasons,
                      [kind |-> "ExceptionalError", message |-> "{}",
                       payload |-> "NoState"])
        /\ \A i \in 1..Len(reasons[last.pipe]) : reasons[last.pipe][i] # TestError
        /\ child[last.pipe] = last.pre.child
        /\ \A c \in Allocated : parent[c] # last.pipe
        /\ stateCache[last.pipe] = <<>>

\* failIfAsync with a one-argument predicate that would resolve true, and a
\* contingency, on a fresh contingency child.
C33_Witness ==
    /\ AppliedWithoutState
    /\ last.op = "failIfAsync"
    /\ last.func.kind = "ret"
    /\ last.func.pval = "true"
    /\ last.ctg.present
    /\ parent[last.pipe] # Undefined
    /\ Len(reasons[last.pipe]) = 1

\* The operations of Result: the entry points and the steps.
Operations == Producing \cup Gates

C35_TryFailsOnAnyThrow ==
    last.op = "try" =>
        /\ last.func.kind = "throw" => isFailed(reasons[last.pipe])
        /\ isSuccess(reasons[last.pipe]) => last.func.kind = "ret"

\* ------------------------------------------------------------------ overlapping calls
\* A caller that does not await: it makes its next call on the primary
\* pipeline while earlier async calls are still suspended, and routines may
\* start async steps on the child that nobody awaits.  At most MaxPending
\* calls are suspended at a time.
MaxPending == 2

\* The caller is between two calls; other calls may be suspended.
Free == last = NoCall

Room == Cardinality(pending) < MaxPending

\* The pipelines try/tryAsync created.
Roots == {p \in Allocated : parent[p] = Undefined}

\* Suspended calls are told apart by what was called on which pipeline.
Fresh(op, p, func, ctg) ==
    \A c \in pending : ~(c.op = op /\ c.pipe = p /\ c.func = func /\ c.ctg = ctg)

\* The delegates of the overlapping calls: parameterless, and they return or
\* reject with a value that can be serialised.
OverlapSteps == DetachedSteps

OverlapPredicates ==
    {f \in AsyncPredicates :
        f.arity = 0 /\ f.kind # "throw" /\ f.exc # "circular" /\ f.pval # "1"}

OverlapSyncPredicates == {f \in OverlapPredicates : f.kind = "ret"}

OverlapContingencies ==
    {c \in Contingencies : c.func.kind # "throw"} \cup AsyncContingencies

\* What the routine of a completed gate left suspended.
Leftover(p, ctg, o) ==
    IF o.cinv = 1 THEN Detached(o.w, o.w.child[p], ctg.func) ELSE {}

\* The caller goes on without awaiting the promise of the call it just made.
NoAwait ==
    /\ last.phase = "suspended"
    /\ last' = NoCall
    /\ UNCHANGED <<reasons, stateCache, routineName, parent, child, count, pending, held>>

OverlapBindAsync ==
    /\ Free
    /\ Room
    /\ \E p \in Roots, func \in OverlapSteps :
          /\ Fresh("bindAsync", p, func, NoContingency)
          /\ AsyncCall("bindAsync", p, func, NoContingency,
                       bindAsyncStart(World, p, func), Snapshot(World, p))

OverlapFailIf ==
    /\ Free
    /\ \E p \in Roots, predicate \in OverlapSyncPredicates,
          contingency \in OverlapContingencies :
          LET o == failIf(World, p, predicate, TestError, contingency)
          IN  /\ contingency.present => (CanAllocate /\ Room)
              /\ Commit(o.w)
              /\ Record("failIf", p, predicate, contingency, o, "done", Snapshot(World, p))
              /\ pending' = pending \cup Leftover(p, contingency, o)

OverlapFailIfAsync ==
    /\ Free
    /\ Room
    /\ \E p \in Roots, predicate \in OverlapPredicates,
          contingency \in OverlapContingencies :
          /\ contingency.present => CanAllocate
          /\ Fresh("failIfAsync", p, predicate, contingency)
          /\ AsyncCall("failIfAsync", p, predicate, contingency,
                       gateAsyncStart(World, p, predicate), Snapshot(World, p))

OverlapFailIfAsyncSettle ==
    \E c \in pending :
        /\ c.op = "failIfAsync"
        /\ LET o == failIfAsyncSettle(World, c.pipe, c.func, TestError, c.ctg,
                                      c.arg, c.ninv)
           IN  /\ Commit(o.w)
               /\ Record(c.op, c.pipe, c.func, c.ctg, o, "done", c.pre)
               /\ pending' = (pending \ {c}) \cup Leftover(c.pipe, c.ctg, o)

NextOverlap ==
    \/ Try
    \/ OverlapBindAsync
    \/ BindAsyncSettle
    \/ OverlapFailIf
    \/ OverlapFailIfAsync
    \/ OverlapFailIfAsyncSettle
    \/ NoAwait
    \/ Return

SpecOverlap == Init /\ [][NextOverlap]_vars

\* The call observed last is a bindAsync whose promise has resolved: the step
\* was invoked when it was called, and the continuation has run.
BindAsyncResolved ==
    /\ last.op = "bindAsync"
    /\ last.phase = "done"
    /\ last.ninv = 1
    /\ last.func.kind = "ret"

\* C36: bindAsync tests isSuccess when it is called and not again when the
\* promise of its step settles.  A bindAsync whose step was invoked was
\* called on a successful pipeline, and when its promise resolves the value
\* is written to the state cache whether or not the pipeline has become
\* failed while the call was suspended; the step that settles it leaves the
\* reasons as they are.
C36_TestedOnceAtCall ==
    /\ [](BindAsyncResolved =>
             /\ isSuccess(last.pre.reasons)
             /\ stateCache[last.pipe] = <<StepOut(last.func, last.arg)>>)
    /\ [][BindAsyncResolved' => reasons' = reasons]_vars

\* A bindAsync started on a successful pipeline resolves after an overlapping
\* call has failed the pipeline, and replaces the cached state.
C36_Witness ==
    /\ BindAsyncResolved
    /\ last.pre.reasons = <<>>
    /\ last.pre.stateCache = <<0>>
    /\ isFailed(reasons[last.pipe])
    /\ stateCache[last.pipe] = <<1>>

\* The call observed last is a failIfAsync whose predicate was invoked and
\* whose promise has resolved true.
FailIfAsyncResolvedTrue ==
    /\ last.op = "failIfAsync"
    /\ last.phase = "done"
    /\ last.ninv = 1
    /\ last.func.kind = "ret"
    /\ last.func.pval = "true"

\* C37: every failIfAsync that was started on a successful pipeline and whose
\* predicate resolves true appends the supplied error when it settles, also
\* when an overlapping call has failed the pipeline in the meantime; with a
\* contingency it creates a new child, runs the routine once and makes the new
\* child the child of the pipeline, replacing a child an earlier call
\* attached.  Of two such overlapping calls, both errors are appended, both
\* routines run, and the child is the one of the call that settled last.
C37_OverlappingContingencies ==
    [][FailIfAsyncResolvedTrue' =>
          LET p == last'.pipe
          IN  /\ isSuccess(last'.pre.reasons)
              /\ Len(reasons'[p]) > Len(reasons[p])
              /\ SubSeq(reasons'[p], 1, Len(reasons[p]) + 1) = Append(reasons[p], TestError)
              /\ last'.ctg.present =>
                    /\ last'.cinv = 1
                    /\ count' = count + 1
                    /\ child'[p] = count'
                    /\ parent'[count'] = p
                    /\ routineName'[count'] = last'.ctg.routineName]_vars

\* Two overlapping failIfAsync calls with contingencies have both settled:
\* two errors, two children created, the second one attached.
C37_Witness ==
    /\ FailIfAsyncResolvedTrue
    /\ last.ctg.present
    /\ last.pipe = 1
    /\ last.pre.reasons = <<>>
    /\ reasons[1] = <<TestError, TestError>>
    /\ parent[2] = 1
    /\ parent[3] = 1
    /\ child[1] = 3

\* The gate observed last has run an asynchronous contingency routine.
AsyncRoutineRan ==
    /\ last.op \in FailGates
    /\ last.phase = "done"
    /\ last.cinv = 1
    /\ last.ctg.func.kind \in {"bindAsync", "reject"}

\* The suspended calls on pipeline p.
PendingOn(p) == {c \in pending : c.pipe = p}

\* C38: failIf and failIfAsync call the contingency routine and do not await
\* what it returns.  When the routine returns the promise of an async step it
\* started on the child, the gate completes with nothing thrown while that step
\* is still suspended and the child is as it was created; when that step
\* settles later, the reasons or the cached state of the child change and the
\* parent stays as it is.  When the promise the routine returns rejects, the
\* gate completes with nothing thrown, the parent has gained the supplied
\* error and nothing else, and the child has no reasons.
C38_RoutineNotAwaited ==
    /\ [](AsyncRoutineRan =>
             LET c == child[last.pipe]
             IN  /\ last.threw = <<>>
                 /\ reasons[c] = <<>>
                 /\ stateCache[c] = <<>>
                 /\ reasons[last.pipe][Len(reasons[last.pipe])] = TestError
                 /\ last.ctg.func.kind = "bindAsync" =>
                       \E s \in PendingOn(c) : s.op = "bindAsync" /\ s.func = last.ctg.func.step
                 /\ last.ctg.func.kind = "reject" => PendingOn(c) = {})
    /\ [][AsyncRoutineRan' =>
             /\ Len(reasons'[last'.pipe]) = Len(reasons[last'.pipe]) + 1
             /\ \A q \in Allocated \ {last'.pipe} : reasons'[q] = reasons[q]]_vars
    /\ [][(last'.op = "bindAsync" /\ last'.phase = "done"
              /\ parent[last'.pipe] # Undefined) =>
             /\ <<reasons'[last'.pipe], stateCache'[last'.pipe]>>
                    # <<reasons[last'.pipe], stateCache[last'.pipe]>>
             /\ reasons'[parent[last'.pipe]] = reasons[parent[last'.pipe]]
             /\ stateCache'[parent[last'.pipe]] = stateCache[parent[last'.pipe]]]_vars

\* failIf has returned, later the async step its routine started on the child
\* rejects: the child, successful when failIf returned, is failed now.
C38_Witness ==
    /\ last.op = "bindAsync"
    /\ last.phase = "done"
    /\ last.pipe = 2
    /\ parent[2] = 1
    /\ last.pre.reasons = <<>>
    /\ isFailed(reasons[2])
    /\ reasons[1] = <<TestError>>

\* The pipeline reached from p by following n child links (Undefined when the
\* chain ends before).
RECURSIVE Descendant(_, _)
Descendant(p, n) ==
    IF n = 0 \/ p = Undefined THEN p ELSE Descendant(child[p], n - 1)

\* C39: parent/child links form simple chains.  Every pipeline is the child of
\* at most one pipeline; following child links from a pipeline never comes
\* back to it (so, a pipeline having one child at most, no walk along child
\* links visits a pipeline twice); and a pipeline that is the child of no
\* pipeline, the head of its chain, was created by try or tryAsync: it has no
\* parent and carries the routine name given to the entry point.
C39_SimpleChains ==
    /\ \A p, q \in Allocated :
          (child[p] # Undefined /\ child[p] = child[q]) => p = q
    /\ \A p \in Allocated : \A n \in 1..count : Descendant(p, n) # p
    /\ \A p \in Allocated :
          (\A q \in Allocated : child[q] # p) =>
              (parent[p] = Undefined /\ routineName[p] = "Primary route")

\* A chain of three: the contingency of a contingency child has run.
C39_Witness ==
    /\ count = 3
    /\ Descendant(1, 1) = 2
    /\ Descendant(1, 2) = 3
    /\ Descendant(1, 3) = Undefined
    /\ parent[3] = 2
    /\ last.op = "failIf"
    /\ last.pipe = 2
    /\ last.ctg.func.kind = "probe"

====
